---- MODULE Spec2Model ----
(***************************************************************************)
(* Model of hierarchicalforecast/core.py: _build_fn_name and               *)
(* HierarchicalReconciliation.reconcile.                                   *)
(*                                                                         *)
(* Column names, labels and attribute texts are sequences of one-character *)
(* strings, so that Python's substring test (`in`), str.join and re.findall*)
(* are computed as the code computes them.                                 *)
(***************************************************************************)
EXTENDS Integers, Sequences, FiniteSets, TLC

VARIABLES
    \* ---- reconcile(): arguments
    Y_hat_df,        \* the columns of the base-forecast table, in order
    Y_df,            \* the set of columns of the historical table
    level,           \* None or a list of levels
    bootstrap,       \* BOOLEAN
    reconcilers,     \* self.reconcilers
    \* ---- reconcile(): locals
    pc,              \* position in reconcile
    model_names,
    pi_model_names,
    common_vals,     \* the staging dict: key -> value
    fcsts,           \* columns of the output table, in order
    ri, mi,          \* indices of the two nested loops
    kwargs,          \* arguments of the current reconciler call
    fcsts_model,     \* result mapping of the current reconciler call
    calls,           \* every reconciler call made so far
    err,             \* the exception that ended the call, or "none"
    \* ---- the same code run on concrete data
    est,             \* lines 111-118 on the cells of one model: inputs and locals
    tab,             \* lines 86-95, 105 and 143 on the rows of a table
    lab              \* _build_fn_name on two reconciler instances

dvars == <<Y_hat_df, Y_df, level, bootstrap, reconcilers, pc, model_names,
           pi_model_names, common_vals, fcsts, ri, mi, kwargs, fcsts_model,
           calls, err>>

vars == <<dvars, est, tab, lab>>

----------------------------------------------------------------------------
(* Strings *)

Digits == <<"0", "1", "2", "3", "4", "5", "6", "7", "8", "9">>

IsDigit(c) == \E i \in 1..10 : Digits[i] = c

DigitVal(c) == (CHOOSE i \in 1..10 : Digits[i] = c) - 1

\* Python: sub in s
Contains(sub, s) ==
    \E i \in 0..(Len(s) - Len(sub)) : SubSeq(s, i + 1, i + Len(sub)) = sub

\* Python: f'{n}' for a non-negative int
RECURSIVE IntToStr(_)
IntToStr(n) ==
    IF n < 10 THEN <<Digits[n + 1]>>
    ELSE IntToStr(n \div 10) \o <<Digits[(n % 10) + 1]>>

\* int of a string of digits
RECURSIVE StrToInt(_)
StrToInt(s) ==
    IF Len(s) = 0 THEN 0
    ELSE 10 * StrToInt(SubSeq(s, 1, Len(s) - 1)) + DigitVal(s[Len(s)])

\* elements of a sequence
Range(s) == {s[i] : i \in 1..Len(s)}

\* list comprehension [x for x in s if x in keep]
RECURSIVE Filter(_, _)
Filter(s, keep) ==
    IF s = <<>> THEN <<>>
    ELSE (IF Head(s) \in keep THEN <<Head(s)>> ELSE <<>>) \o Filter(Tail(s), keep)

----------------------------------------------------------------------------
(* Names used by the inputs *)

DS == <<"d", "s">>
Y == <<"y">>
LO == <<"l", "o">>
HI == <<"h", "i">>
DASH_LO == <<"-", "l", "o">>
DASH_HI == <<"-", "h", "i">>

\* the value None
None == [none |-> TRUE, list |-> <<>>]

\* a list of levels
List(l) == [none |-> FALSE, list |-> l]

----------------------------------------------------------------------------
(* _build_fn_name *)

\* '_'.join(parts)
RECURSIVE Join(_, _)
Join(sep, parts) ==
    IF parts = <<>> THEN <<>>
    ELSE IF Len(parts) = 1 THEN parts[1]
    ELSE parts[1] \o sep \o Join(sep, Tail(parts))

\* f'{name}-{value}': the attribute's name, a dash, the text form of its value
NameValue(item) == item.name \o <<"-">> \o item.value.text

\* fn is [type, dict, sig]: type(fn).__name__, fn.__dict__ as the ordered
\* list of its items, and the parameter names of its call signature.
_build_fn_name(fn) ==
    LET func_params == [i \in 1..Len(fn.dict) |-> NameValue(fn.dict[i])]
    IN  IF func_params # <<>>
        THEN fn.type \o <<"_">> \o Join(<<"_">>, func_params)
        ELSE fn.type

----------------------------------------------------------------------------
(* reconcile: lines 80-85, the columns of the base-forecast table *)

drop_cols(cols) == IF Y \in Range(cols) THEN {DS, Y} ELSE {DS}

AllNames(cols) == Filter(cols, Range(cols) \ drop_cols(cols))

IsPiName(name) == Contains(DASH_LO, name) \/ Contains(DASH_HI, name)

PiModelNames(cols) ==
    Filter(AllNames(cols), {n \in Range(AllNames(cols)) : IsPiName(n)})

ModelNames(cols) ==
    Filter(AllNames(cols), Range(AllNames(cols)) \ Range(PiModelNames(cols)))

\* line 102: the interval columns taken to be the model's
pi_model_name(pis, model_name) ==
    Filter(pis, {n \in Range(pis) : Contains(model_name, n)})

----------------------------------------------------------------------------
(* reconcile: lines 112-114, sign and level of an interval column *)

sign(pi_col) == IF Contains(LO, pi_col) THEN -1 ELSE 1

IsNumChar(c) == IsDigit(c) \/ c = "." \/ c = ","

\* the end of the run of digits that starts at i (i - 1 when s[i] is none)
RECURSIVE DigitRunEnd(_, _)
DigitRunEnd(s, i) ==
    IF i <= Len(s) /\ IsDigit(s[i]) THEN DigitRunEnd(s, i + 1) ELSE i - 1

\* the end of the run of characters of [.,\d] that starts at i
RECURSIVE NumRunEnd(_, _)
NumRunEnd(s, i) ==
    IF i <= Len(s) /\ IsNumChar(s[i]) THEN NumRunEnd(s, i + 1) ELSE i - 1

\* The match of [\d]+[.,\d]+|[\d]*[.][\d]+|[\d]+ that starts at i, as
\* <<i, end>>, or <<>> when none starts there.  The first alternative needs
\* a digit and then one more character of [.,\d] at least; as both parts
\* are greedy it takes the whole run of such characters.  The second is a
\* (possibly empty) run of digits, a dot and a run of digits.
MatchAt(s, i) ==
    LET numEnd == NumRunEnd(s, i)
        digEnd == DigitRunEnd(s, i)
        fracEnd == IF digEnd + 1 <= Len(s) /\ s[digEnd + 1] = "."
                   THEN DigitRunEnd(s, digEnd + 2) ELSE 0
    IN  IF IsDigit(s[i]) /\ numEnd >= i + 1 THEN <<i, numEnd>>
        ELSE IF fracEnd >= digEnd + 2 THEN <<i, fracEnd>>
        ELSE IF digEnd >= i THEN <<i, digEnd>>
        ELSE <<>>

\* re.findall(...)[0]: the leftmost match, <<>> when the list is empty
RECURSIVE FirstMatchFrom(_, _)
FirstMatchFrom(s, i) ==
    IF i > Len(s) THEN <<>>
    ELSE IF MatchAt(s, i) # <<>>
         THEN SubSeq(s, MatchAt(s, i)[1], MatchAt(s, i)[2])
         ELSE FirstMatchFrom(s, i + 1)

FirstNumber(pi_col) == FirstMatchFrom(pi_col, 1)

\* float(text) succeeds on digits with at most one dot
IsFloat(text) ==
    /\ \A i \in 1..Len(text) : IsDigit(text[i]) \/ text[i] = "."
    /\ Cardinality({i \in 1..Len(text) : text[i] = "."}) <= 1
    /\ \E i \in 1..Len(text) : IsDigit(text[i])

\* the level of the column that follows its last dash
\* line 113-114: level_col as the text that float() is given
level_col(pi_col) == FirstNumber(pi_col)

----------------------------------------------------------------------------
(* reconcile: the staging dictionary *)

\* A staged value: what it is (kind), the model whose columns it was built
\* from, the interval column it was derived from and the level list it holds.
Val(kind, model_name, col, lv) ==
    [kind |-> kind, model |-> model_name, col |-> col, level |-> lv]

\* lines 89-94: the context built once per call
BuiltContext ==
    [key \in {"y_insample", "S", "idx_bottom", "tags"} |-> Val(key, <<>>, <<>>, None)]

\* common_vals[key] = value
SetItem(cv, key, value) ==
    [k \in DOMAIN cv \cup {key} |-> IF k = key THEN value ELSE cv[k]]

\* del common_vals[key], for a key that is present
DelItem(cv, key) == [k \in DOMAIN cv \ {key} |-> cv[k]]

has_fitted(fn) == "y_hat_insample" \in fn.sig

has_level(fn) == "level" \in fn.sig

\* line 103
pi(pis, model_name) == Len(pi_model_name(pis, model_name)) > 0

\* line 106
NeedsSigmah(fn, pis, model_name, lvl, boot) ==
    pi(pis, model_name) /\ has_level(fn) /\ ~lvl.none /\ ~boot

\* lines 111-119.  level_col[0] raises IndexError when the column name holds
\* no number and float() raises ValueError on a text that is no number.
StageSigmah(st, fn, pis, model_name, lvl, boot) ==
    IF ~NeedsSigmah(fn, pis, model_name, lvl, boot) THEN st
    ELSE LET pi_col == pi_model_name(pis, model_name)[1]
         IN  IF level_col(pi_col) = <<>> THEN [st EXCEPT !.err = "IndexError"]
             ELSE IF ~IsFloat(level_col(pi_col)) THEN [st EXCEPT !.err = "ValueError"]
             ELSE [st EXCEPT !.cv =
                     SetItem(SetItem(st.cv, "sigmah", Val("sigmah", model_name, pi_col, None)),
                             "level", Val("level", <<>>, <<>>, lvl))]

\* lines 120-139
StageFitted(st, fn, ydf, model_name, lvl, boot) ==
    IF st.err # "none" \/ ~(has_fitted(fn) \/ boot) THEN st
    ELSE IF model_name \in ydf
    THEN LET y_hat_insample == Val("y_hat_insample", model_name, <<>>, None)
             cv1 == IF has_fitted(fn)
                    THEN SetItem(st.cv, "y_hat_insample", y_hat_insample)
                    ELSE st.cv
             cv2 == IF boot /\ has_level(fn)
                    THEN SetItem(SetItem(SetItem(cv1,
                            "bootstrap_samples", Val("bootstrap_samples", model_name, <<>>, None)),
                            "bootstrap", Val("True", <<>>, <<>>, None)),
                            "level", Val("level", <<>>, <<>>, lvl))
                    ELSE cv1
         IN  [st EXCEPT !.cv = cv2]
    ELSE [st EXCEPT !.cv = SetItem(st.cv, "y_hat_insample", Val("None", <<>>, <<>>, None))]

\* lines 106-139: what one iteration stages on top of cv
Staged(cv, fn, pis, ydf, model_name, lvl, boot) ==
    StageFitted(StageSigmah([cv |-> cv, err |-> "none"], fn, pis, model_name, lvl, boot),
                fn, ydf, model_name, lvl, boot)

\* lines 140-141
Kwargs(fn, cv) == [key \in fn.sig \cap DOMAIN cv |-> cv[key]]

\* line 144 without its bootstrap disjunct
WritesIntervalsPiOnly(fn, pis, model_name, lvl, boot) ==
    pi(pis, model_name) /\ has_level(fn) /\ ~lvl.none

\* line 144
WritesIntervals(fn, pis, model_name, lvl, boot) ==
    (pi(pis, model_name) /\ has_level(fn) /\ ~lvl.none) \/ (boot /\ ~lvl.none)

\* fcsts[name] = ...: a new column is appended, an existing one is replaced
SetColumn(cols, name) == IF name \in Range(cols) THEN cols ELSE Append(cols, name)

MeanName(model_name, fn) == model_name \o <<"/">> \o _build_fn_name(fn)

LoName(model_name, fn, lv) == MeanName(model_name, fn) \o <<"-">> \o LO \o <<"-">> \o IntToStr(lv)

HiName(model_name, fn, lv) == MeanName(model_name, fn) \o <<"-">> \o HI \o <<"-">> \o IntToStr(lv)

\* lines 145-147, for the levels of list l that the result holds
RECURSIVE WriteLevels(_, _, _, _)
WriteLevels(cols, model_name, fn, l) ==
    IF l = <<>> THEN cols
    ELSE WriteLevels(SetColumn(SetColumn(cols, LoName(model_name, fn, Head(l))),
                               HiName(model_name, fn, Head(l))),
                     model_name, fn, Tail(l))

\* del of each key of the list in turn; KeyError at the first that is absent
RECURSIVE DelAll(_, _)
DelAll(st, keys) ==
    IF keys = <<>> \/ st.err # "none" THEN st
    ELSE IF Head(keys) \in DOMAIN st.cv
         THEN DelAll([st EXCEPT !.cv = DelItem(st.cv, Head(keys))], Tail(keys))
         ELSE [st EXCEPT !.err = "KeyError(common_vals)"]

\* the keys lines 148-155 delete, in order
PurgeKeys(fn, pis, model_name, lvl, boot) ==
    (IF WritesIntervals(fn, pis, model_name, lvl, boot)
     THEN <<"level">> \o (IF ~boot THEN <<"sigmah">>
                          ELSE <<"bootstrap_samples", "bootstrap">>)
     ELSE <<>>)
    \o (IF has_fitted(fn) THEN <<"y_hat_insample">> ELSE <<>>)

Purged(cv, fn, pis, model_name, lvl, boot) ==
    DelAll([cv |-> cv, err |-> "none"], PurgeKeys(fn, pis, model_name, lvl, boot))

----------------------------------------------------------------------------
(* The inputs reconcile is run on *)

MaxRecs == 2
MaxModels == 2
MaxPis == 2

\* sequences without repetition of lo..hi elements of S
Lists(S, lo, hi) ==
    {q \in UNION {[1..k -> S] : k \in lo..hi} :
        \A i, j \in 1..Len(q) : i # j => q[i] # q[j]}

\* model columns: one model's name is a substring of the other's
ModelUniverse == {<<"A">>, <<"B", "A">>}

\* interval columns "{model}-lo-{L}" / "{model}-hi-{L}"
PiUniverse ==
    {<<"A", "-", "l", "o", "-", "8", "0">>,
     <<"B", "A", "-", "l", "o", "-", "8", "0">>,
     <<"B", "A", "-", "h", "i", "-", "9", "5">>,
     <<"A", "-", "l", "o", "-", "1", "0", "0">>}

LevelUniverse == {None, List(<<80>>), List(<<80, 95>>), List(<<100>>)}

\* A reconciler with no hyperparameters; its signature declares S, and
\* y_hat_insample and/or the interval parameters.
IntervalParams == {"level", "sigmah", "bootstrap", "bootstrap_samples"}

Reconciler(type, sig) == [type |-> type, dict |-> <<>>, sig |-> {"S"} \cup sig]

ReconcilerUniverse ==
    {Reconciler(<<"P">>, {}),
     Reconciler(<<"F">>, {"y_hat_insample"}),
     Reconciler(<<"L">>, IntervalParams),
     Reconciler(<<"M">>, {"y_hat_insample"} \cup IntervalParams)}

\* c is named "{m}-lo-{L}" or "{m}-hi-{L}"
IsIntervalColumnOf(m, c) ==
    /\ Len(c) > Len(m) + 4
    /\ SubSeq(c, 1, Len(m)) = m
    /\ SubSeq(c, Len(m) + 1, Len(m) + 4) \in {<<"-", "l", "o", "-">>, <<"-", "h", "i", "-">>}
    /\ \A k \in (Len(m) + 5)..Len(c) : IsNumChar(c[k])

NoCall == [key \in {} |-> None]

NoResult == [mean |-> FALSE, levels |-> {}]

\* Every interval column of a table belongs to one of its models.
Init ==
    /\ \E ms \in Lists(ModelUniverse, 1, MaxModels), ps \in Lists(PiUniverse, 0, MaxPis) :
          /\ \A i \in 1..Len(ps) : \E j \in 1..Len(ms) : IsIntervalColumnOf(ms[j], ps[i])
          /\ Y_hat_df = <<DS>> \o ms \o ps
    /\ Y_df \in {{DS, Y} \cup fitted : fitted \in SUBSET Range(ModelNames(Y_hat_df))}
    /\ level \in LevelUniverse
    /\ bootstrap \in BOOLEAN
    /\ reconcilers \in Lists(ReconcilerUniverse, 1, MaxRecs)
    /\ pc = "build"
    /\ model_names = <<>>
    /\ pi_model_names = <<>>
    /\ common_vals = NoCall
    /\ fcsts = <<>>
    /\ ri = 1
    /\ mi = 1
    /\ kwargs = NoCall
    /\ fcsts_model = NoResult
    /\ calls = <<>>
    /\ err = "none"
    /\ est = "unused" /\ tab = "unused" /\ lab = "unused"

inputs == <<Y_hat_df, Y_df, level, bootstrap, reconcilers, est, tab, lab>>

reconcile_fn == reconcilers[ri]

model_name == model_names[mi]

\* lines 80-95
BuildContext ==
    /\ pc = "build"
    /\ model_names' = ModelNames(Y_hat_df)
    /\ pi_model_names' = PiModelNames(Y_hat_df)
    /\ common_vals' = BuiltContext
    /\ fcsts' = Y_hat_df
    /\ pc' = "stage"
    /\ UNCHANGED <<inputs, ri, mi, kwargs, fcsts_model, calls, err>>

\* lines 101-139
Stage ==
    /\ pc = "stage"
    /\ LET st == Staged(common_vals, reconcile_fn, pi_model_names, Y_df,
                        model_name, level, bootstrap)
       IN  /\ common_vals' = st.cv
           /\ err' = st.err
           /\ pc' = IF st.err = "none" THEN "invoke" ELSE "raised"
    /\ UNCHANGED <<inputs, model_names, pi_model_names, fcsts, ri, mi, kwargs,
                   fcsts_model, calls>>

\* What a reconciler returns: the mean and, when it is given a level list,
\* a lower and an upper field per level.  Given no level list it returns
\* the mean alone, or the fields of levels of its own choosing.
Results(kw, lvl) ==
    IF "level" \in DOMAIN kw /\ ~kw["level"].level.none
    THEN {[mean |-> TRUE, levels |-> Range(kw["level"].level.list)]}
    ELSE {[mean |-> TRUE, levels |-> {}], [mean |-> TRUE, levels |-> Range(lvl.list)]}

\* lines 140-142
Invoke ==
    /\ pc = "invoke"
    /\ kwargs' = Kwargs(reconcile_fn, common_vals)
    /\ calls' = Append(calls, [fn |-> reconcile_fn, model |-> model_name,
                               kwargs |-> kwargs'])
    /\ fcsts_model' \in Results(kwargs', level)
    /\ pc' = "collect"
    /\ UNCHANGED <<inputs, model_names, pi_model_names, common_vals, fcsts, ri, mi, err>>

\* the loop headers of lines 96 and 100, after an iteration
NextIteration ==
    IF mi < Len(model_names) THEN mi' = mi + 1 /\ ri' = ri /\ pc' = "stage"
    ELSE IF ri < Len(reconcilers) THEN mi' = 1 /\ ri' = ri + 1 /\ pc' = "stage"
    ELSE mi' = mi /\ ri' = ri /\ pc' = "return"

\* lines 143-155
Collect ==
    /\ pc = "collect"
    /\ LET writes == WritesIntervals(reconcile_fn, pi_model_names, model_name,
                                     level, bootstrap)
           mean == SetColumn(fcsts, MeanName(model_name, reconcile_fn))
           missing == writes /\ ~(Range(level.list) \subseteq fcsts_model.levels)
           st == Purged(common_vals, reconcile_fn, pi_model_names, model_name,
                        level, bootstrap)
       IN  IF missing
           THEN /\ fcsts' = mean
                /\ err' = "KeyError(fcsts_model)"
                /\ pc' = "raised"
                /\ UNCHANGED <<common_vals, ri, mi>>
           ELSE /\ fcsts' = IF writes
                            THEN WriteLevels(mean, model_name, reconcile_fn, level.list)
                            ELSE mean
                /\ common_vals' = st.cv
                /\ err' = st.err
                /\ IF st.err = "none" THEN NextIteration
                   ELSE pc' = "raised" /\ UNCHANGED <<ri, mi>>
    /\ UNCHANGED <<inputs, model_names, pi_model_names, kwargs, fcsts_model, calls>>

\* line 156
Return ==
    /\ pc = "return"
    /\ pc' = "returned"
    /\ UNCHANGED <<inputs, model_names, pi_model_names, common_vals, fcsts, ri, mi,
                   kwargs, fcsts_model, calls, err>>

Next == BuildContext \/ Stage \/ Invoke \/ Collect \/ Return

Spec == Init /\ [][Next]_vars

----------------------------------------------------------------------------
(* Claims about the dispatch loop, checked under Spec *)

PerIterationKeys == {"sigmah", "level", "bootstrap_samples", "bootstrap", "y_hat_insample"}

\* an iteration has ended and the next begins, or the loop is over
AtIterationBoundary ==
    (pc = "stage" /\ calls # <<>>) \/ pc \in {"return", "returned"}

\* C1: between two iterations the staging dictionary holds none of the
\* per-iteration keys, only y_insample, S, idx_bottom and tags.
C1_NoStateLeaks ==
    AtIterationBoundary => DOMAIN common_vals = DOMAIN BuiltContext

\* the arguments the pair (fn, model) gets when it is processed alone on a
\* freshly built context
KwargsAlone(fn, m) ==
    Kwargs(fn, Staged(BuiltContext, fn, pi_model_names, Y_df, m, level, bootstrap).cv)

\* C2: every reconciler call gets the arguments its (method, model) pair
\* would get if processed alone on a fresh context, whatever the order of
\* the reconcilers list and of the model columns.
C2_OrderIndependent ==
    \A i \in 1..Len(calls) : calls[i].kwargs = KwargsAlone(calls[i].fn, calls[i].model)

\* the output columns whose name starts with "{model}/{methodLabel}"
ColumnsOf(m, fn) ==
    {c \in Range(fcsts) :
        /\ Len(c) >= Len(MeanName(m, fn))
        /\ SubSeq(c, 1, Len(MeanName(m, fn))) = MeanName(m, fn)}

MeanAndIntervals(m, fn, l) ==
    {MeanName(m, fn)} \cup {LoName(m, fn, l[i]) : i \in 1..Len(l)}
                      \cup {HiName(m, fn, l[i]) : i \in 1..Len(l)}

TwoLevels == ~level.none /\ Len(level.list) = 2 /\ level.list[1] # level.list[2]

C5_AbsentFittedIsGraceful ==
    /\ \A i \in 1..Len(calls) :
          (has_fitted(calls[i].fn) /\ calls[i].model \notin Y_df) =>
              /\ "y_hat_insample" \in DOMAIN calls[i].kwargs
              /\ calls[i].kwargs["y_hat_insample"].kind = "None"
    /\ (pc = "raised" /\ has_fitted(reconcile_fn) /\ model_name \notin Y_df) =>
          err = "KeyError(fcsts_model)"

ValidLevel(lv) == 0 < lv /\ lv < 100

\* C7: no reconciler is invoked with a level list that holds a level
\* outside (0, 100), nor with a scale derived from an interval column whose
\* level is outside (0, 100); such a call is rejected.
C7_InvalidLevelRejected ==
    \A i \in 1..Len(calls) :
        /\ "level" \in DOMAIN calls[i].kwargs =>
              \A k \in 1..Len(calls[i].kwargs["level"].level.list) :
                  ValidLevel(calls[i].kwargs["level"].level.list[k])
        /\ "sigmah" \in DOMAIN calls[i].kwargs =>
              ValidLevel(StrToInt(level_col(calls[i].kwargs["sigmah"].col)))

\* C10: a model's has-intervals flag is true exactly when the table has an
\* interval column of that model, and the scale staged for a model is
\* derived from one of the model's own interval columns.
C10_IntervalsAreTheModelsOwn ==
    /\ pc # "build" =>
          \A j \in 1..Len(model_names) :
              pi(pi_model_names, model_names[j])
                  <=> \E c \in Range(Y_hat_df) : IsIntervalColumnOf(model_names[j], c)
    /\ \A i \in 1..Len(calls) :
          "sigmah" \in DOMAIN calls[i].kwargs =>
              IsIntervalColumnOf(calls[i].model, calls[i].kwargs["sigmah"].col)

----------------------------------------------------------------------------
(* Lines 111-118 on numbers: the scale derived from one interval column *)

\* Forecasts, bounds and scales are fixed-point numbers: a scale and a
\* z-score count thousandths, a forecast or a bound counts millionths, so
\* that point - scale * z is exact.  A float is a number, an infinity or nan.
Num(v) == [tag |-> "num", v |-> v]
Inf == [tag |-> "inf", v |-> 0]
NegInf == [tag |-> "-inf", v |-> 0]
NaN == [tag |-> "nan", v |-> 0]

\* float(level_col): the integer part of the text (the levels of the
\* columns below have no fractional part)
Float(text) ==
    StrToInt(SubSeq(text, 1, DigitRunEnd(text, 1)))

\* scipy.stats.norm.ppf(0.5 + level_col / 200), in thousandths, on the
\* levels of the columns below: ppf(0.5) = 0, ppf(1) = inf, ppf(q > 1) = nan
norm_ppf(level_value) ==
    CASE level_value = 0 -> Num(0)
      [] level_value = 50 -> Num(674)
      [] level_value = 80 -> Num(1282)
      [] level_value = 90 -> Num(1645)
      [] level_value = 95 -> Num(1960)
      [] level_value = 100 -> Inf
      [] level_value > 100 -> NaN

\* x / z for an integer x and a float z, as IEEE division does it
Quot(a, b) == IF a >= 0 THEN a \div b ELSE -((-a) \div b)

Divide(x, zf) ==
    CASE zf.tag = "nan" -> NaN
      [] zf.tag = "inf" -> Num(0)
      [] zf.tag = "num" /\ zf.v = 0 ->
            (IF x = 0 THEN NaN ELSE IF x > 0 THEN Inf ELSE NegInf)
      [] zf.tag = "num" /\ zf.v # 0 -> Num(Quot(x, zf.v))

Times(sg, f) ==
    CASE f.tag = "num" -> Num(sg * f.v)
      [] f.tag = "inf" -> (IF sg > 0 THEN Inf ELSE NegInf)
      [] f.tag = "-inf" -> (IF sg > 0 THEN NegInf ELSE Inf)
      [] f.tag = "nan" -> NaN

\* line 117, cell by cell
Sigmah(sg, y_hat_model, bound, zf) ==
    [c \in 1..Len(y_hat_model) |-> Times(sg, Divide(y_hat_model[c] - bound[c], zf))]

MaxScale == 3
MaxCells == 2

PointUniverse == {-2000000, 0, 10000000}

SideUniverse == {"lo", "hi"}

ColumnLevelUniverse == {0, 50, 80, 90, 95, 100, 120}

PiColName(m, side, lv) ==
    m \o <<"-">> \o (IF side = "lo" THEN LO ELSE HI) \o <<"-">> \o IntToStr(lv)

\* z(L) of the round trip, for a level with a positive finite z-score
HasZ(lv) == norm_ppf(lv).tag = "num" /\ norm_ppf(lv).v > 0

\* The interval column of a model "A": where the level has a z-score the
\* bound is point -/+ scale * z(L), elsewhere point -/+ scale.
InitScale ==
    /\ \E y_hat \in UNION {[1..n -> PointUniverse] : n \in 1..MaxCells},
          scale \in 1..MaxScale, side \in SideUniverse, lv \in ColumnLevelUniverse :
          LET width == IF HasZ(lv) THEN scale * norm_ppf(lv).v ELSE scale * 1000
          IN  est = [pc |-> "parse",
                     y_hat_model |-> y_hat,
                     pi_col |-> PiColName(<<"A">>, side, lv),
                     bound |-> [c \in 1..Len(y_hat) |->
                                  IF side = "lo" THEN y_hat[c] - width ELSE y_hat[c] + width],
                     scale |-> scale, side |-> side, L |-> lv,
                     sign |-> 0, z |-> NaN, sigmah |-> <<>>]
    /\ pc = "unused" /\ Y_hat_df = <<>> /\ Y_df = {} /\ level = None
    /\ bootstrap = FALSE /\ reconcilers = <<>> /\ model_names = <<>>
    /\ pi_model_names = <<>> /\ common_vals = NoCall /\ fcsts = <<>>
    /\ ri = 1 /\ mi = 1 /\ kwargs = NoCall /\ fcsts_model = NoResult
    /\ calls = <<>> /\ err = "none"
    /\ tab = "unused" /\ lab = "unused"

\* lines 112-115
ParseColumn ==
    /\ est.pc = "parse"
    /\ est' = [est EXCEPT !.pc = "estimate",
                          !.sign = sign(est.pi_col),
                          !.z = norm_ppf(Float(level_col(est.pi_col)))]
    /\ UNCHANGED <<dvars, tab, lab>>

\* lines 116-118
Estimate ==
    /\ est.pc = "estimate"
    /\ est' = [est EXCEPT !.pc = "staged",
                          !.sigmah = Sigmah(est.sign, est.y_hat_model, est.bound, est.z)]
    /\ UNCHANGED <<dvars, tab, lab>>

NextScale == ParseColumn \/ Estimate

SpecScale == InitScale /\ [][NextScale]_vars

\* C6: from a lower bound point - s * z(L) at level 80 or 95 the staged
\* scale is s, with positive sign, in every cell.
C6_RoundTrip ==
    (est.pc = "staged" /\ est.side = "lo" /\ est.L \in {80, 95}) =>
        \A c \in 1..Len(est.sigmah) : est.sigmah[c] = Num(est.scale)

----------------------------------------------------------------------------
(* Lines 86-95, 105 and 142-143 on the rows of a table *)

\* A row of the base-forecast table: its index label unique_id, its
\* timestamp ds and the value v of the model column.

\* pd.Index.unique(): the labels in order of first occurrence
RECURSIVE Unique(_)
Unique(index) ==
    IF index = <<>> THEN <<>>
    ELSE LET front == Unique(SubSeq(index, 1, Len(index) - 1))
             last == index[Len(index)]
         IN  IF last \in Range(front) THEN front ELSE Append(front, last)

\* the index of a table
Index(rows) == [i \in 1..Len(rows) |-> rows[i].unique_id]

\* .loc[labels] on a frame with a unique index keeps the missing labels out
LocReindex(index, labels) == [err |-> "none", index |-> Filter(labels, Range(index))]

\* .loc[labels] on a frame with a unique index: the rows of the labels, in
\* the order of the labels; KeyError when a label is not in the index
Loc(index, labels) ==
    IF Range(labels) \subseteq Range(index)
    THEN [err |-> "none", index |-> labels]
    ELSE [err |-> "KeyError", index |-> <<>>]

\* the elements of a set of numbers in increasing order
RECURSIVE Sorted(_)
Sorted(S) ==
    IF S = {} THEN <<>>
    ELSE LET m == CHOOSE x \in S : \A y \in S : x <= y
         IN  <<m>> \o Sorted(S \ {m})

\* pivot(columns='ds', values=...).loc[uids].values: one row per uid, in
\* the order of uids, one column per timestamp, in increasing order
PivotValues(rows, uids) ==
    LET dss == Sorted({rows[i].ds : i \in 1..Len(rows)})
        cell(u, d) == (CHOOSE i \in 1..Len(rows) :
                          rows[i].unique_id = u /\ rows[i].ds = d)
    IN  [r \in 1..Len(uids) |-> [c \in 1..Len(dss) |-> rows[cell(uids[r], dss[c])].v]]

\* ndarray.flatten(): the rows of the matrix one after the other
RECURSIVE Flatten(_)
Flatten(matrix) ==
    IF matrix = <<>> THEN <<>> ELSE Head(matrix) \o Flatten(Tail(matrix))

\* fcsts[name] = array: the array's k-th value goes to the k-th row
SetValues(rows, array) ==
    [i \in 1..Len(rows) |-> [unique_id |-> rows[i].unique_id, ds |-> rows[i].ds,
                             v |-> rows[i].v, out |-> array[i]]]

\* the elements of a set of labels in some order
RECURSIVE SetToSeq(_)
SetToSeq(S) ==
    IF S = {} THEN <<>>
    ELSE LET x == CHOOSE x \in S : TRUE IN <<x>> \o SetToSeq(S \ {x})

MaxRows == 6

UidUniverse == {"a", "b", "c"}

DsUniverse == {1, 2}

\* the value of the model column in the cell (u, d): no two cells agree
CellValue(u, d) ==
    10 * (CASE u = "a" -> 1 [] u = "b" -> 2 [] u = "c" -> 3) + d

\* The tables whose series share one horizon: every series of U has one
\* row per timestamp of D, in any order of the rows.
Tables ==
    {rows \in UNION {[1..n -> [unique_id : UidUniverse, ds : DsUniverse]] : n \in 1..MaxRows} :
        /\ \A i, j \in 1..Len(rows) : i # j => rows[i] # rows[j]
        /\ \A i, j \in 1..Len(rows) :
              \E k \in 1..Len(rows) :
                  rows[k].unique_id = rows[i].unique_id /\ rows[k].ds = rows[j].ds}

InitTable ==
    /\ \E rows \in Tables, S_index \in Lists(UidUniverse, 1, Cardinality(UidUniverse)),
          hist \in SUBSET UidUniverse :
          tab = [pc |-> "build",
                 Y_hat_df |-> [i \in 1..Len(rows) |->
                                  [unique_id |-> rows[i].unique_id, ds |-> rows[i].ds,
                                   v |-> CellValue(rows[i].unique_id, rows[i].ds)]],
                 S |-> S_index,
                 Y_df |-> hist,
                 uids |-> <<>>, S_ |-> <<>>, y_hat_model |-> <<>>, fcsts |-> <<>>,
                 ncalls |-> 0, err |-> "none"]
    /\ pc = "unused" /\ Y_hat_df = <<>> /\ Y_df = {} /\ level = None
    /\ bootstrap = FALSE /\ reconcilers = <<>> /\ model_names = <<>>
    /\ pi_model_names = <<>> /\ common_vals = NoCall /\ fcsts = <<>>
    /\ ri = 1 /\ mi = 1 /\ kwargs = NoCall /\ fcsts_model = NoResult
    /\ calls = <<>> /\ err = "none"
    /\ est = "unused" /\ lab = "unused"

\* lines 86-95: S.loc[uids] and then Y_df.pivot(...).loc[uids]
TableBuildContext ==
    /\ tab.pc = "build"
    /\ LET uids == Unique(Index(tab.Y_hat_df))
           S_ == Loc(tab.S, uids)
           y_insample == Loc(SetToSeq(tab.Y_df), uids)
       IN  tab' = IF S_.err # "none"
                  THEN [tab EXCEPT !.pc = "raised", !.err = S_.err, !.uids = uids]
                  ELSE IF y_insample.err # "none"
                  THEN [tab EXCEPT !.pc = "raised", !.err = y_insample.err,
                                   !.uids = uids, !.S_ = S_.index]
                  ELSE [tab EXCEPT !.pc = "loop", !.uids = uids, !.S_ = S_.index]
    /\ UNCHANGED <<dvars, est, lab>>

\* lines 105 and 142-143, for one model and a reconciler that returns its
\* y_hat unchanged as 'mean'
TableReconcile ==
    /\ tab.pc = "loop"
    /\ LET y_hat_model == PivotValues(tab.Y_hat_df, tab.uids)
           mean == y_hat_model
       IN  tab' = [tab EXCEPT !.pc = "return",
                              !.y_hat_model = y_hat_model,
                              !.ncalls = tab.ncalls + 1,
                              !.fcsts = SetValues(tab.Y_hat_df, Flatten(mean))]
    /\ UNCHANGED <<dvars, est, lab>>

\* line 156
TableReturn ==
    /\ tab.pc = "return"
    /\ tab' = [tab EXCEPT !.pc = "returned"]
    /\ UNCHANGED <<dvars, est, lab>>

NextTable == TableBuildContext \/ TableReconcile \/ TableReturn

SpecTable == InitTable /\ [][NextTable]_vars

\* C3: whatever the order of the rows, the output has the rows of the input
\* in the same order, and the column of a reconciler that returns y_hat as
\* its mean equals the model column row by row.
C3_RowsKeepTheirValues ==
    tab.pc = "returned" =>
        /\ Len(tab.fcsts) = Len(tab.Y_hat_df)
        /\ \A i \in 1..Len(tab.fcsts) :
              /\ tab.fcsts[i].unique_id = tab.Y_hat_df[i].unique_id
              /\ tab.fcsts[i].ds = tab.Y_hat_df[i].ds
              /\ tab.fcsts[i].out = tab.Y_hat_df[i].v

\* the row at which label u first occurs in the table
FirstRow(rows, u) ==
    CHOOSE i \in 1..Len(rows) :
        rows[i].unique_id = u /\ \A j \in 1..(i - 1) : rows[j].unique_id # u

TableUids == {tab.Y_hat_df[i].unique_id : i \in 1..Len(tab.Y_hat_df)}

\* C8: when an identifier of the table is absent from the row index of S the
\* call raises while the context is built, no reconciler is invoked and no
\* table is returned; when all are present the restricted matrix has one row
\* per identifier, in order of first occurrence in the table.
C8_HierarchyMismatchIsFatal ==
    tab.pc # "build" =>
        IF TableUids \subseteq Range(tab.S)
        THEN /\ Len(tab.S_) = Cardinality(TableUids)
             /\ Range(tab.S_) = TableUids
             /\ \A i, j \in 1..Len(tab.S_) :
                   i < j => FirstRow(tab.Y_hat_df, tab.S_[i]) < FirstRow(tab.Y_hat_df, tab.S_[j])
        ELSE /\ tab.pc = "raised"
             /\ tab.err = "KeyError"
             /\ tab.ncalls = 0
             /\ tab.fcsts = <<>>

\* a table of several series, one of them absent from S, whose call raised
C8_Witness ==
    /\ tab.pc = "raised"
    /\ Cardinality(TableUids) > 1
    /\ ~(TableUids \subseteq Range(tab.S))
    /\ TableUids \cap Range(tab.S) # {}

----------------------------------------------------------------------------
(* _build_fn_name on two instances of one reconciler type *)

MaxAttrs == 2

AttrNames == {<<"a">>, <<"b">>}

\* attribute values: their Python type and their text form str(value)
AttrValues ==
    {[type |-> "int", text |-> <<"1">>],
     [type |-> "str", text |-> <<"1">>],
     [type |-> "str", text |-> <<"x">>],
     [type |-> "str", text |-> <<"y">>],
     [type |-> "str", text |-> <<"x", "_", "b", "-", "y">>]}

\* fn.__dict__.items(): attributes in order of assignment, no name twice
AttrDicts ==
    {q \in UNION {[1..k -> [name : AttrNames, value : AttrValues]] : k \in 0..MaxAttrs} :
        \A i, j \in 1..Len(q) : i # j => q[i].name # q[j].name}

Instance(items) == [type |-> <<"T">>, dict |-> items, sig |-> {"S"}]

InitLabel ==
    /\ \E d1, d2 \in AttrDicts :
          lab = [pc |-> "first", reconcilers |-> <<Instance(d1), Instance(d2)>>,
                 names |-> <<>>, fcsts |-> <<DS, <<"A">>>>]
    /\ pc = "unused" /\ Y_hat_df = <<>> /\ Y_df = {} /\ level = None
    /\ bootstrap = FALSE /\ reconcilers = <<>> /\ model_names = <<>>
    /\ pi_model_names = <<>> /\ common_vals = NoCall /\ fcsts = <<>>
    /\ ri = 1 /\ mi = 1 /\ kwargs = NoCall /\ fcsts_model = NoResult
    /\ calls = <<>> /\ err = "none"
    /\ est = "unused" /\ tab = "unused"

\* lines 97 and 143 for reconciler k and the model "A"
LabelAndWrite(k) ==
    LET reconcile_fn_name == _build_fn_name(lab.reconcilers[k])
    IN  [lab EXCEPT !.names = Append(lab.names, reconcile_fn_name),
                    !.fcsts = SetColumn(lab.fcsts, MeanName(<<"A">>, lab.reconcilers[k]))]

ReconcileFirst ==
    /\ lab.pc = "first"
    /\ lab' = [LabelAndWrite(1) EXCEPT !.pc = "second"]
    /\ UNCHANGED <<dvars, est, tab>>

ReconcileSecond ==
    /\ lab.pc = "second"
    /\ lab' = [LabelAndWrite(2) EXCEPT !.pc = "done"]
    /\ UNCHANGED <<dvars, est, tab>>

NextLabel == ReconcileFirst \/ ReconcileSecond

SpecLabel == InitLabel /\ [][NextLabel]_vars

\* the hyperparameters of an instance: attribute name -> value
Hyperparameters(fn) == {<<fn.dict[i].name, fn.dict[i].value>> : i \in 1..Len(fn.dict)}

\* C9: two instances of one type whose hyperparameters differ get different
\* labels, and the column of the first is not overwritten by the second's.
C9_LabelsAreUnique ==
    (lab.pc = "done"
        /\ Hyperparameters(lab.reconcilers[1]) # Hyperparameters(lab.reconcilers[2])) =>
        /\ lab.names[1] # lab.names[2]
        /\ Len(lab.fcsts) = 4

====
